---- MODULE Spec2Model ----
(***************************************************************************)
(* The Battleship contract of contracts/battleship/src/lib.rs as a state   *)
(* machine.  The state is the contract's temporary storage (one variable   *)
(* per DataKey), what the hub contract has been told, and the outcome of   *)
(* the latest invocation.  Every entry point is one action; an invocation  *)
(* that returns Err or traps in the hub call leaves the storage as it was  *)
(* (the host reverts the storage writes of a failed invocation).           *)
(* require_auth() is taken to pass: callers are who they say they are.     *)
(***************************************************************************)
EXTENDS Integers, Sequences, FiniteSets

VARIABLES
    hub_address,    \* DataKey::HubAddress
    session_id,     \* DataKey::SessionId
    phase,          \* DataKey::Phase
    player1,        \* DataKey::Player1
    player2,        \* DataKey::Player2
    player_state,   \* DataKey::PlayerState(Address)
    pending_shot,   \* DataKey::PendingShot
    winner,         \* DataKey::Winner
    hub_started,    \* start_game calls the hub has accepted
    hub_ended,      \* the latest end_game call the hub has accepted
    last            \* the latest invocation: entry point, arguments, outcome

storage == <<hub_address, session_id, phase, player1, player2,
             player_state, pending_shot, winner>>
vars == <<hub_address, session_id, phase, player1, player2,
          player_state, pending_shot, winner, hub_started, hub_ended, last>>

----------------------------------------------------------------------------
\* Program constants.

BoardSize == 10
MaskLen == 100
TotalShipCells == 17
zero_digest == 0
zero_proof == 0

\* Bounds of the exploration.

\* Misses recorded against one player.
MaxMisses == 1

----------------------------------------------------------------------------
\* Values.

None == <<>>
Some(v) == <<v>>
IsSome(o) == o # <<>>
Get(o) == o[1]

Addresses == {"a", "b", "c"}
NoAddress == "none"
HubAddresses == {"hub"}
SessionIds == {1}
\* initialize is exercised with two distinct identities, in this order.
PlayerPairs == {<<"a", "b">>}
Digests == {1}
Proofs == {zero_proof, 1}
Responses == {0, 1, 2}

GamePhase == {"WaitingForCommits", "Player1Turn", "Player2Turn",
              "WaitingForProof", "Finished"}
NoPhase == "None"

GameError == {"NotInitialized", "InvalidPhase", "NotAPlayer", "NotYourTurn",
              "AlreadyCommitted", "OutOfBounds", "AlreadyShot", "ProofInvalid",
              "GameOver", "InvalidResponse"}
\* the invocation trapped in a cross-contract call to the hub
HostError == "HostError"
Ok == "Ok"

PendingShot(attacker, defender, x, y) ==
    [attacker |-> attacker, defender |-> defender, x |-> x, y |-> y]

ShotRecord(x, y, is_hit) == [x |-> x, y |-> y, is_hit |-> is_hit]

empty_state ==
    [commitment |-> zero_digest,
     committed |-> FALSE,
     hits_received |-> 0,
     shot_mask |-> [i \in 0 .. (MaskLen - 1) |-> FALSE],
     shot_history |-> <<>>]

cell_index(x, y) == x * BoardSize + y

----------------------------------------------------------------------------
\* The outcome of an invocation.

\* hub: what the hub answered to the invocation's call of it, if it made one
NoHubCall == "none"
HubAnswer(hub_ok) == IF hub_ok THEN "accepted" ELSE "trapped"

Call(op, caller, x, y, response, proof, hub, res, ret, events) ==
    [op |-> op, caller |-> caller, x |-> x, y |-> y, response |-> response,
     proof |-> proof, hub |-> hub, res |-> res, ret |-> ret, events |-> events]

NoCall == Call("none", NoAddress, 0, 0, 0, 0, NoHubCall, Ok, None, <<>>)

\* mutant: a failed invocation drops the pending shot
rejected_clears_pending(call) ==
    /\ pending_shot' = None
    /\ UNCHANGED <<hub_address, session_id, phase, player1, player2,
                   player_state, winner, hub_started, hub_ended>>
    /\ last' = call

\* An invocation that fails: none of its checks is preceded by a write that
\* outlives it, so the storage and the hub are as before the call.
rejected(call) ==
    /\ UNCHANGED <<storage, hub_started, hub_ended>>
    /\ last' = call

----------------------------------------------------------------------------
Init ==
    /\ hub_address = None
    /\ session_id = None
    /\ phase = NoPhase
    /\ player1 = NoAddress
    /\ player2 = NoAddress
    /\ player_state = [p \in Addresses |-> None]
    /\ pending_shot = None
    /\ winner = NoAddress
    /\ hub_started = {}
    /\ hub_ended = None
    /\ last = NoCall

----------------------------------------------------------------------------
\* initialize

\* the hub call returns normally only if the hub accepts it; otherwise the
\* invocation traps
start_game_accepted(hub_ok) == hub_ok

initialize(hub, sid, p1, p2, hub_ok) ==
    IF start_game_accepted(hub_ok)
    THEN /\ hub_address' = Some(hub)
         /\ session_id' = Some(sid)
         /\ player1' = p1
         /\ player2' = p2
         /\ phase' = "WaitingForCommits"
         /\ player_state' = [player_state EXCEPT ![p1] = Some(empty_state),
                                                 ![p2] = Some(empty_state)]
         /\ hub_started' = hub_started \cup {<<sid, p1, p2, 0, 0>>}
         /\ UNCHANGED <<pending_shot, winner, hub_ended>>
         /\ last' = Call("initialize", NoAddress, 0, 0, 0, 0, HubAnswer(hub_ok),
                         Ok, None, <<"init">>)
    ELSE rejected(Call("initialize", NoAddress, 0, 0, 0, 0, HubAnswer(hub_ok),
                       HostError, None, <<>>))

----------------------------------------------------------------------------
\* Internal helpers

require_player(player) ==
    IF player1 = NoAddress \/ player2 = NoAddress THEN "NotInitialized"
    ELSE IF player # player1 /\ player # player2 THEN "NotAPlayer"
    ELSE Ok

\* mutant: the verifier accepts every proof
verify_zk_proof_any(proof, pending, response) == TRUE

verify_zk_proof(proof, pending, response) == proof # zero_proof

\* mutant: the flag is compared with the wrong player
player1_won_swapped(w) == w = player2

\* the player_a-won flag handed to the hub's end_game
player1_won(w) == w = player1

\* declare_winner's own failures: the configuration it reads is missing
declare_winner_check ==
    IF ~IsSome(hub_address) \/ ~IsSome(session_id) THEN "NotInitialized" ELSE Ok

\* the end_game call returns normally only if the hub accepts it; otherwise
\* the invocation traps
end_game_accepted(hub_ok) == hub_ok

\* mutant: declare_winner returns Ok(false)
declare_winner_ret_false == FALSE

\* the value declare_winner returns on success
declare_winner_ret == TRUE

\* declare_winner's writes and its end_game call, when the hub accepts it
declare_winner(w) ==
    /\ phase' = "Finished"
    /\ winner' = w
    /\ hub_ended' = Some([session_id |-> Get(session_id),
                          player1_won |-> player1_won(w)])

----------------------------------------------------------------------------
\* commit_fleet

commit_fleet_check(player) ==
    IF phase = NoPhase THEN "NotInitialized"
    ELSE IF phase # "WaitingForCommits" THEN "InvalidPhase"
    ELSE IF require_player(player) # Ok THEN require_player(player)
    ELSE IF ~IsSome(player_state[player]) THEN "NotInitialized"
    ELSE IF Get(player_state[player]).committed THEN "AlreadyCommitted"
    ELSE Ok

\* mutant: one commitment is enough to start
either_committed(ps) ==
    Get(ps[player1]).committed \/ Get(ps[player2]).committed

both_committed(ps) ==
    Get(ps[player1]).committed /\ Get(ps[player2]).committed

commit_fleet(player, commitment_hash) ==
    LET res == commit_fleet_check(player) IN
    IF res = Ok
    THEN LET state == [Get(player_state[player]) EXCEPT
                          !.commitment = commitment_hash, !.committed = TRUE]
             ps == [player_state EXCEPT ![player] = Some(state)]
         IN /\ player_state' = ps
            /\ phase' = IF both_committed(ps) THEN "Player1Turn" ELSE phase
            /\ UNCHANGED <<hub_address, session_id, player1, player2,
                           pending_shot, winner, hub_started, hub_ended>>
            /\ last' = Call("commit_fleet", player, 0, 0, 0, 0, NoHubCall, Ok, None,
                            IF both_committed(ps) THEN <<"commit", "start">>
                                                  ELSE <<"commit">>)
    ELSE rejected(Call("commit_fleet", player, 0, 0, 0, 0, NoHubCall, res, None,
                       <<>>))

----------------------------------------------------------------------------
\* fire_shot

\* mutant: the branches are swapped, the attacker shoots at itself
defender_of_swapped(attacker) == IF attacker = player1 THEN player1 ELSE player2

defender_of(attacker) == IF attacker = player1 THEN player2 ELSE player1

already_shot(defender, x, y) ==
    Get(player_state[defender]).shot_mask[cell_index(x, y)]

\* mutant: player1 may already fire in WaitingForCommits
fire_shot_check_in_commits(attacker, x, y) ==
    IF phase = NoPhase THEN "NotInitialized"
    ELSE IF phase \in {"Player1Turn", "WaitingForCommits"} /\ attacker # player1
         THEN "NotYourTurn"
    ELSE IF phase = "Player2Turn" /\ attacker # player2 THEN "NotYourTurn"
    ELSE IF phase \notin {"Player1Turn", "Player2Turn", "WaitingForCommits"}
         THEN "InvalidPhase"
    ELSE IF x >= BoardSize \/ y >= BoardSize THEN "OutOfBounds"
    ELSE IF already_shot(defender_of(attacker), x, y) THEN "AlreadyShot"
    ELSE Ok

\* mutant: the attacker is not checked in Player2Turn
fire_shot_check_p2_unchecked(attacker, x, y) ==
    IF phase = NoPhase THEN "NotInitialized"
    ELSE IF phase = "Player1Turn" /\ attacker # player1 THEN "NotYourTurn"
    ELSE IF phase \notin {"Player1Turn", "Player2Turn"} THEN "InvalidPhase"
    ELSE IF x >= BoardSize \/ y >= BoardSize THEN "OutOfBounds"
    ELSE IF already_shot(defender_of(attacker), x, y) THEN "AlreadyShot"
    ELSE Ok

fire_shot_check(attacker, x, y) ==
    IF phase = NoPhase THEN "NotInitialized"
    ELSE IF phase = "Player1Turn" /\ attacker # player1 THEN "NotYourTurn"
    ELSE IF phase = "Player2Turn" /\ attacker # player2 THEN "NotYourTurn"
    ELSE IF phase \notin {"Player1Turn", "Player2Turn"} THEN "InvalidPhase"
    ELSE IF x >= BoardSize \/ y >= BoardSize THEN "OutOfBounds"
    ELSE IF already_shot(defender_of(attacker), x, y) THEN "AlreadyShot"
    ELSE Ok

\* mutant: the shot is recorded without publishing its event
fire_shot_silent(attacker, x, y) ==
    LET res == fire_shot_check(attacker, x, y) IN
    IF res = Ok
    THEN /\ pending_shot' = Some(PendingShot(attacker, defender_of(attacker), x, y))
         /\ phase' = "WaitingForProof"
         /\ UNCHANGED <<hub_address, session_id, player1, player2,
                        player_state, winner, hub_started, hub_ended>>
         /\ last' = Call("fire_shot", attacker, x, y, 0, 0, NoHubCall, Ok, None,
                         <<>>)
    ELSE rejected(Call("fire_shot", attacker, x, y, 0, 0, NoHubCall, res, None,
                       <<>>))

fire_shot(attacker, x, y) ==
    LET res == fire_shot_check(attacker, x, y) IN
    IF res = Ok
    THEN /\ pending_shot' = Some(PendingShot(attacker, defender_of(attacker), x, y))
         /\ phase' = "WaitingForProof"
         /\ UNCHANGED <<hub_address, session_id, player1, player2,
                        player_state, winner, hub_started, hub_ended>>
         /\ last' = Call("fire_shot", attacker, x, y, 0, 0, NoHubCall, Ok, None,
                         <<"fire">>)
    ELSE rejected(Call("fire_shot", attacker, x, y, 0, 0, NoHubCall, res, None,
                       <<>>))

----------------------------------------------------------------------------
\* submit_response

\* mutant: the caller is compared with the pending attacker
submit_response_check_attacker(defender, response, proof) ==
    IF phase = NoPhase THEN "NotInitialized"
    ELSE IF phase # "WaitingForProof" THEN "InvalidPhase"
    ELSE IF ~IsSome(pending_shot) THEN "NotInitialized"
    ELSE IF defender # Get(pending_shot).attacker THEN "NotYourTurn"
    ELSE IF response > 1 THEN "InvalidResponse"
    ELSE IF ~verify_zk_proof(proof, Get(pending_shot), response) THEN "ProofInvalid"
    ELSE Ok

submit_response_check(defender, response, proof) ==
    IF phase = NoPhase THEN "NotInitialized"
    ELSE IF phase # "WaitingForProof" THEN "InvalidPhase"
    ELSE IF ~IsSome(pending_shot) THEN "NotInitialized"
    ELSE IF defender # Get(pending_shot).defender THEN "NotYourTurn"
    ELSE IF response > 1 THEN "InvalidResponse"
    ELSE IF ~verify_zk_proof(proof, Get(pending_shot), response) THEN "ProofInvalid"
    ELSE Ok

\* the defender's record after the pending shot is resolved
record_shot(state, pending, is_hit) ==
    [state EXCEPT
        !.shot_mask = [@ EXCEPT ![cell_index(pending.x, pending.y)] = TRUE],
        !.shot_history = Append(@, ShotRecord(pending.x, pending.y, is_hit)),
        !.hits_received = IF is_hit THEN @ + 1 ELSE @]

\* mutant: the win is declared only past the 17th hit
victory_past_total(state) == state.hits_received > TotalShipCells

victory(state) == state.hits_received >= TotalShipCells

\* mutant: the attacker keeps the turn
next_turn_attacker(defender) ==
    IF defender = player1 THEN "Player2Turn" ELSE "Player1Turn"

\* the phase after a response that does not end the game
next_turn(defender) ==
    IF defender = player1 THEN "Player1Turn" ELSE "Player2Turn"

submit_response(defender, response, proof, hub_ok) ==
    LET res == submit_response_check(defender, response, proof) IN
    IF res = Ok
    THEN LET pending == Get(pending_shot)
             is_hit == response = 1
             defender_state == record_shot(Get(player_state[defender]), pending, is_hit)
         IN IF victory(defender_state)
            THEN IF declare_winner_check # Ok
                 THEN rejected(Call("submit_response", defender, 0, 0, response,
                                    proof, NoHubCall, declare_winner_check, None,
                                    <<>>))
                 ELSE IF end_game_accepted(hub_ok)
                 THEN /\ player_state' = [player_state EXCEPT
                                             ![defender] = Some(defender_state)]
                      /\ pending_shot' = None
                      /\ declare_winner(pending.attacker)
                      /\ UNCHANGED <<hub_address, session_id, player1, player2,
                                     hub_started>>
                      /\ last' = Call("submit_response", defender, 0, 0, response,
                                      proof, HubAnswer(hub_ok), Ok,
                                      Some(declare_winner_ret),
                                      <<"respond", "winner">>)
                 ELSE rejected(Call("submit_response", defender, 0, 0, response,
                                    proof, HubAnswer(hub_ok), HostError, None,
                                    <<>>))
            ELSE /\ player_state' = [player_state EXCEPT
                                        ![defender] = Some(defender_state)]
                 /\ pending_shot' = None
                 /\ phase' = next_turn(defender)
                 /\ UNCHANGED <<hub_address, session_id, player1, player2,
                                winner, hub_started, hub_ended>>
                 /\ last' = Call("submit_response", defender, 0, 0, response,
                                 proof, NoHubCall, Ok, Some(is_hit), <<"respond">>)
    ELSE rejected(Call("submit_response", defender, 0, 0, response, proof,
                       NoHubCall, res, None, <<>>))

----------------------------------------------------------------------------
\* claim_victory

opponent_of(player) == IF player = player1 THEN player2 ELSE player1

\* mutant: the claim is accepted one hit early
fleet_afloat_off_by_one(opponent_state) ==
    opponent_state.hits_received < TotalShipCells - 1

\* the opponent still has ship cells left
fleet_afloat(opponent_state) == opponent_state.hits_received < TotalShipCells

claim_victory_check(player) ==
    IF require_player(player) # Ok THEN require_player(player)
    ELSE IF phase = NoPhase THEN "NotInitialized"
    ELSE IF phase = "Finished" THEN "GameOver"
    ELSE IF fleet_afloat(Get(player_state[opponent_of(player)]))
         THEN "InvalidPhase"
    ELSE Ok

claim_victory(player, hub_ok) ==
    LET res == claim_victory_check(player) IN
    IF res # Ok
    THEN rejected(Call("claim_victory", player, 0, 0, 0, 0, NoHubCall, res, None,
                       <<>>))
    ELSE IF declare_winner_check # Ok
    THEN rejected(Call("claim_victory", player, 0, 0, 0, 0, NoHubCall,
                       declare_winner_check, None, <<>>))
    ELSE IF end_game_accepted(hub_ok)
    THEN /\ declare_winner(player)
         /\ UNCHANGED <<hub_address, session_id, player1, player2,
                        player_state, pending_shot, hub_started>>
         /\ last' = Call("claim_victory", player, 0, 0, 0, 0, HubAnswer(hub_ok),
                         Ok, None, <<"winner">>)
    ELSE rejected(Call("claim_victory", player, 0, 0, 0, 0, HubAnswer(hub_ok),
                       HostError, None, <<>>))

----------------------------------------------------------------------------
\* The inputs explored.

Coord(i) == <<i \div BoardSize, i % BoardSize>>

ShotsAt(p) ==
    IF p \in Addresses /\ IsSome(player_state[p])
    THEN Len(Get(player_state[p]).shot_history)
    ELSE 0

\* Cells are shot in index order (fire_shot treats all cells of the board
\* alike), so the next cell of a defender has the number of the shots resolved
\* against it.  A player tries that cell, the defender's first and latest shot
\* cell, and two cells off the board; an outsider tries the next cell.
FireCoords(attacker) ==
    LET n == ShotsAt(defender_of(attacker)) IN
    {Coord(n), Coord(0), Coord(IF n > 0 THEN n - 1 ELSE 0),
     <<BoardSize, 0>>, <<0, BoardSize>>}

FireInputs ==
    UNION {{<<attacker, c[1], c[2]>> : c \in FireCoords(attacker)} :
              attacker \in {"a", "b"}}
    \cup {<<"c", 0, 0>>}

\* A miss is recorded against a player only before its first hit, and at most
\* MaxMisses times.
ExploredResponse(defender, response, proof) ==
    (submit_response_check(defender, response, proof) = Ok /\ response = 0)
        => /\ Get(player_state[defender]).hits_received = 0
           /\ Len(Get(player_state[defender]).shot_history) < MaxMisses

SubmitInputs ==
    {in \in ({"a", "b"} \X Responses \X Proofs) \cup {<<"c", 1, 1>>} :
        ExploredResponse(in[1], in[2], in[3])}

\* The hub's answer matters only to an invocation that calls it.
HubOutcomes(calls_hub) == IF calls_hub THEN BOOLEAN ELSE {TRUE}

submit_calls_hub(defender, response, proof) ==
    /\ submit_response_check(defender, response, proof) = Ok
    /\ victory(record_shot(Get(player_state[defender]), Get(pending_shot),
                           response = 1))

----------------------------------------------------------------------------
Next ==
    \/ \E hub \in HubAddresses, sid \in SessionIds, pp \in PlayerPairs,
          hub_ok \in BOOLEAN : initialize(hub, sid, pp[1], pp[2], hub_ok)
    \/ \E player \in Addresses, h \in Digests : commit_fleet(player, h)
    \/ \E in \in FireInputs : fire_shot(in[1], in[2], in[3])
    \/ \E in \in SubmitInputs :
          \E hub_ok \in HubOutcomes(submit_calls_hub(in[1], in[2], in[3])) :
              submit_response(in[1], in[2], in[3], hub_ok)
    \/ \E player \in Addresses :
          \E hub_ok \in HubOutcomes(claim_victory_check(player) = Ok) :
              claim_victory(player, hub_ok)

Spec == Init /\ [][Next]_vars

----------------------------------------------------------------------------
\* Properties.

Players == {player1, player2} \ {NoAddress}

HasRecord(p) == IsSome(player_state[p])
Hits(p) == Get(player_state[p]).hits_received
Mask(p) == Get(player_state[p]).shot_mask
Committed(p) == Get(player_state[p]).committed
\* the same of the state a step leads to
HasRecordNext(p) == IsSome(player_state'[p])
HitsNext(p) == Get(player_state'[p]).hits_received
MaskNext(p) == Get(player_state'[p]).shot_mask
CommittedNext(p) == Get(player_state'[p]).committed

\* the step is an invocation of op that returned Ok
Succeeds(op) == last'.op = op /\ last'.res = Ok

\* C1: in every state a PendingShot record exists if and only if the phase is
\* WaitingForProof.
C1_PendingIffWaitingForProof ==
    IsSome(pending_shot) <=> phase = "WaitingForProof"

\* C2: an initialize call on an existing match does not succeed and leaves the
\* phase, the players, the player records, the pending shot and the winner as
\* they were.
C2_InitializeOnlyOnce ==
    [][(last'.op = "initialize" /\ phase # NoPhase)
          => /\ last'.res # Ok
             /\ UNCHANGED <<phase, player1, player2, player_state,
                            pending_shot, winner>>]_vars

\* C3: once the phase is Finished every call fails, and the phase, the winner,
\* the player records and the absence of a pending shot never change.
C3_FinishedIsTerminal ==
    [][phase = "Finished"
          => /\ last'.res # Ok
             /\ pending_shot = None
             /\ UNCHANGED <<phase, winner, player_state, pending_shot>>]_vars

C5_HitsMonotoneAndCapped ==
    [][\A p \in Addresses :
          HasRecord(p) => /\ HasRecordNext(p)
                          /\ HitsNext(p) >= Hits(p)
                          /\ HitsNext(p) <= 17]_vars

\* C6: a shot-mask bit is never cleared once set, and fire_shot succeeds only
\* at a cell of the defender whose bit is not set (a set bit gives
\* AlreadyShot), so that no cell of a defender is fired at successfully twice.
C6_CellShotAtMostOnce ==
    [][/\ \A p \in Addresses : \A i \in 0 .. (MaskLen - 1) :
             (HasRecord(p) /\ Mask(p)[i]) => (HasRecordNext(p) /\ MaskNext(p)[i])
       /\ (last'.op = "fire_shot" /\ phase \in {"Player1Turn", "Player2Turn"}
              /\ last'.caller = (IF phase = "Player1Turn" THEN player1 ELSE player2)
              /\ last'.x < 10 /\ last'.y < 10)
            => LET d == IF last'.caller = player1 THEN player2 ELSE player1
               IN IF Mask(d)[last'.x * 10 + last'.y]
                  THEN last'.res = "AlreadyShot"
                  ELSE last'.res = Ok]_vars

C8_ClaimEarlyInvalidPhase ==
    [][(last'.op = "claim_victory" /\ last'.caller \in Players
           /\ Hits(IF last'.caller = player1 THEN player2 ELSE player1) < 17)
          => last'.res = "InvalidPhase"]_vars

\* C8 amended: claim_victory by a player fails with InvalidPhase whenever the
\* opponent's hits_received is below 17 and the phase is not Finished; once the
\* phase is Finished it fails with GameOver.
C8_ClaimEarlyInvalidPhaseUnlessFinished ==
    [][(last'.op = "claim_victory" /\ last'.caller \in Players
           /\ Hits(IF last'.caller = player1 THEN player2 ELSE player1) < 17)
          => last'.res = (IF phase = "Finished" THEN "GameOver"
                                                ELSE "InvalidPhase")]_vars

C8_Witness ==
    /\ last.op = "claim_victory" /\ last.res = "InvalidPhase"
    /\ last.caller = player1
    /\ phase = "WaitingForProof"
    /\ Hits(player2) = 16

C10_StartWhenBothCommitted ==
    [][Succeeds("commit_fleet")
          => LET both == CommittedNext(player1) /\ CommittedNext(player2)
             IN /\ CommittedNext(last'.caller)
                /\ phase' = (IF both THEN "Player1Turn" ELSE "WaitingForCommits")]_vars

C10_Witness ==
    /\ last.op = "commit_fleet" /\ last.res = Ok
    /\ last.caller = player1
    /\ phase = "Player1Turn"

Other(p) == IF p = player1 THEN player2 ELSE player1
History(p) == Get(player_state[p]).shot_history
HistoryNext(p) == Get(player_state'[p]).shot_history
CountHits(h) == Cardinality({i \in 1 .. Len(h) : h[i].is_hit})
Handlers == {"commit_fleet", "fire_shot", "submit_response", "claim_victory"}

C12_FailedCallChangesNothing ==
    [][(last'.op \in Handlers /\ last'.res # Ok)
          => UNCHANGED <<phase, player1, player2, player_state, pending_shot,
                         winner, hub_address, session_id, hub_ended>>]_vars

C12_Witness ==
    /\ last.op = "submit_response" /\ last.res = "NotYourTurn"
    /\ phase = "WaitingForProof"
    /\ IsSome(pending_shot) /\ last.caller = Get(pending_shot).attacker

\* C13 as stated: every successful call publishes exactly one event and every
\* failing call none.
C13_OneEventPerSuccess ==
    last.op # "none"
        => Len(last.events) = (IF last.res = Ok THEN 1 ELSE 0)

\* C13 amended: a failing call publishes no event; a successful call publishes
\* one event, except the commit_fleet that starts the game (commit, then
\* start) and the submit_response that ends it (respond, then winner), which
\* publish two.
C13_EventsPerCall ==
    last.op # "none"
        => last.events =
              (IF last.res # Ok THEN <<>>
               ELSE CASE last.op = "initialize" -> <<"init">>
                      [] last.op = "commit_fleet" ->
                            IF phase = "Player1Turn" THEN <<"commit", "start">>
                                                     ELSE <<"commit">>
                      [] last.op = "fire_shot" -> <<"fire">>
                      [] last.op = "submit_response" ->
                            IF phase = "Finished" THEN <<"respond", "winner">>
                                                  ELSE <<"respond">>
                      [] last.op = "claim_victory" -> <<"winner">>)

C13_Witness ==
    /\ last.op = "submit_response" /\ last.res = Ok
    /\ phase = "Finished"
    /\ last.events = <<"respond", "winner">>

\* C14: when the hub's end_game call fails during win declaration the
\* invocation fails, and the state it leaves has neither phase Finished nor
\* a winner set.
C14_HubFailureExposesNothing ==
    [][(last'.op \in {"submit_response", "claim_victory"}
           /\ last'.hub = "trapped")
          => /\ last'.res # Ok
             /\ phase' # "Finished"
             /\ winner' = NoAddress]_vars

\* C15: fire_shot succeeds only for the player to move: in Player1Turn every
\* caller but player1 and in Player2Turn every caller but player2 gets
\* NotYourTurn, and in WaitingForCommits, WaitingForProof and Finished every
\* fire_shot gets InvalidPhase.
C15_OnlyThePlayerToMoveFires ==
    [][last'.op = "fire_shot"
          => /\ (phase = "Player1Turn" /\ last'.caller # player1)
                    => last'.res = "NotYourTurn"
             /\ (phase = "Player2Turn" /\ last'.caller # player2)
                    => last'.res = "NotYourTurn"
             /\ phase \in {"WaitingForCommits", "WaitingForProof", "Finished"}
                    => last'.res = "InvalidPhase"
             /\ last'.res = Ok
                    => \/ phase = "Player1Turn" /\ last'.caller = player1
                       \/ phase = "Player2Turn" /\ last'.caller = player2]_vars

C15_Witness ==
    /\ last.op = "fire_shot" /\ last.res = "NotYourTurn"
    /\ phase = "Player2Turn" /\ last.caller = player1

\* C16: submit_response succeeds only in WaitingForProof for the defender of
\* the PendingShot; while a shot is pending any other caller gets NotYourTurn
\* and nothing is resolved, and in every other phase the call gets
\* InvalidPhase.
C16_OnlyThePendingDefenderResponds ==
    [][(last'.op = "submit_response" /\ phase # NoPhase)
          => /\ phase # "WaitingForProof" => last'.res = "InvalidPhase"
             /\ (phase = "WaitingForProof" /\ IsSome(pending_shot)
                    /\ last'.caller # Get(pending_shot).defender)
                  => /\ last'.res = "NotYourTurn"
                     /\ UNCHANGED <<phase, pending_shot, player_state, winner>>
             /\ last'.res = Ok
                  => /\ phase = "WaitingForProof" /\ IsSome(pending_shot)
                     /\ last'.caller = Get(pending_shot).defender]_vars

C16_Witness ==
    /\ last.op = "submit_response" /\ last.res = "NotYourTurn"
    /\ last.proof # zero_proof /\ last.response = 1
    /\ phase = "WaitingForProof"
    /\ IsSome(pending_shot) /\ last.caller = Get(pending_shot).attacker

\* C17: every successful submit_response returns is_hit = (response = 1), the
\* one that delivers the 17th hit included.
C17_ReturnsIsHit ==
    (last.op = "submit_response" /\ last.res = Ok)
        => last.ret = Some(last.response = 1)

C17_Witness ==
    /\ last.op = "submit_response" /\ last.res = Ok
    /\ phase = "Finished" /\ Hits(last.caller) = 17
    /\ last.ret = Some(TRUE)

\* C18: every phase change follows WaitingForCommits -> Player1Turn,
\* Player1Turn / Player2Turn -> WaitingForProof, WaitingForProof ->
\* Player1Turn | Player2Turn | Finished (a match is created in
\* WaitingForCommits).
C18_PhaseGraph ==
    [][phase' # phase
          => <<phase, phase'>> \in
                {<<NoPhase, "WaitingForCommits">>,
                 <<"WaitingForCommits", "Player1Turn">>,
                 <<"Player1Turn", "WaitingForProof">>,
                 <<"Player2Turn", "WaitingForProof">>,
                 <<"WaitingForProof", "Player1Turn">>,
                 <<"WaitingForProof", "Player2Turn">>,
                 <<"WaitingForProof", "Finished">>}]_vars

\* C19: once a player's commit_fleet has succeeded its committed flag stays
\* true and its digest never changes; a further commit_fleet by that player
\* gets AlreadyCommitted in WaitingForCommits and InvalidPhase in a later
\* phase.
C19_CommitmentWriteOnce ==
    [][/\ \A p \in Addresses :
             (HasRecord(p) /\ Committed(p))
                => /\ HasRecordNext(p) /\ CommittedNext(p)
                   /\ Get(player_state'[p]).commitment
                         = Get(player_state[p]).commitment
       /\ (last'.op = "commit_fleet" /\ last'.caller \in Players
              /\ Committed(last'.caller))
            => last'.res = (IF phase = "WaitingForCommits"
                            THEN "AlreadyCommitted" ELSE "InvalidPhase")]_vars

\* C20: for each player hits_received is the number of is_hit entries of its
\* shot history, and the history changes only by a successful submit_response
\* appending one entry to it.
C20_HistoryAppendOnly ==
    [][\A p \in Addresses :
          HasRecord(p)
             => /\ Hits(p) = CountHits(History(p))
                /\ HasRecordNext(p)
                /\ HitsNext(p) = CountHits(HistoryNext(p))
                /\ \/ HistoryNext(p) = History(p)
                   \/ /\ Succeeds("submit_response") /\ last'.caller = p
                      /\ Len(HistoryNext(p)) = Len(History(p)) + 1
                      /\ SubSeq(HistoryNext(p), 1, Len(History(p))) = History(p)]_vars

\* a fleet with all its cells hit belongs to the loser of a finished match
SunkMeansFinished ==
    \A p \in Players :
        (HasRecord(p) /\ Hits(p) = TotalShipCells)
            => phase = "Finished" /\ winner = Other(p)

\* C21 as stated: whenever a player has 17 hits the phase is Finished and the
\* winner is its opponent, and every claim_victory is rejected with GameOver
\* or InvalidPhase.
C21_ClaimVictoryGameOverOrInvalidPhase ==
    [][/\ SunkMeansFinished
       /\ last'.op = "claim_victory"
             => last'.res \in {"GameOver", "InvalidPhase"}]_vars

\* C21 amended: whenever a player has 17 hits the phase is Finished and the
\* winner is its opponent; claim_victory never succeeds: a player of the
\* match is rejected with GameOver or InvalidPhase, any other caller with
\* NotAPlayer, and every caller with NotInitialized before the match exists.
C21_ClaimVictoryNeverSucceeds ==
    [][/\ SunkMeansFinished
       /\ last'.op = "claim_victory"
             => /\ last'.res # Ok
                /\ UNCHANGED storage
                /\ last'.res =
                      (IF phase = NoPhase THEN "NotInitialized"
                       ELSE IF last'.caller \notin Players THEN "NotAPlayer"
                       ELSE IF phase = "Finished" THEN "GameOver"
                       ELSE "InvalidPhase")]_vars

C21_Witness ==
    /\ last.op = "claim_victory" /\ last.res = "GameOver"
    /\ last.caller \in Players /\ winner = last.caller
    /\ phase = "Finished"
    /\ Hits(Other(last.caller)) = TotalShipCells

\* C22: get_winner returns a winner exactly when the phase is Finished; a
\* winner, once present, is one of the two current players and never changes.
C22_WinnerIffFinished ==
    [][/\ (winner # NoAddress) <=> (phase = "Finished")
       /\ winner # NoAddress => winner \in Players /\ winner' = winner]_vars

BothCommitted == \A p \in Players : HasRecord(p) /\ Committed(p)

\* C23: in every state whose phase is Player1Turn, Player2Turn,
\* WaitingForProof or Finished both players are committed, and no fire_shot
\* succeeds while a player is uncommitted.
C23_NoPlayBeforeBothCommitted ==
    [][/\ phase \in {"Player1Turn", "Player2Turn", "WaitingForProof", "Finished"}
             => Players = {player1, player2} /\ BothCommitted
       /\ Succeeds("fire_shot") => BothCommitted]_vars

C23_Witness ==
    /\ last.op = "fire_shot" /\ last.res = "InvalidPhase"
    /\ last.caller = player1
    /\ phase = "WaitingForCommits"
    /\ Committed(player1) /\ ~Committed(player2)

-----------------------------------------------------------------------------
\* One match in which every shot is answered "miss": verify_zk_proof accepts
\* any non-zero proof, so nothing ties the responses to a fleet of 17 cells.

ToMove == IF phase = "Player1Turn" THEN player1 ELSE player2

\* the next cell of the defender's board in index order, the last one once
\* all have been shot
NextCell(defender) ==
    Coord(IF ShotsAt(defender) < MaskLen THEN ShotsAt(defender) ELSE MaskLen - 1)

LongGameNext ==
    \/ /\ phase = NoPhase
       /\ \E hub \in HubAddresses, sid \in SessionIds, pp \in PlayerPairs :
             initialize(hub, sid, pp[1], pp[2], TRUE)
    \/ /\ phase = "WaitingForCommits"
       /\ \E player \in Players, h \in Digests : commit_fleet(player, h)
    \/ /\ phase \in {"Player1Turn", "Player2Turn"}
       /\ fire_shot(ToMove, NextCell(defender_of(ToMove))[1],
                    NextCell(defender_of(ToMove))[2])
    \/ /\ phase = "WaitingForProof" /\ IsSome(pending_shot)
       /\ \E proof \in Proofs \ {zero_proof} :
             submit_response(Get(pending_shot).defender, 0, proof, TRUE)
    \/ /\ phase = "WaitingForCommits"
       /\ \E player \in Players : claim_victory(player, TRUE)

SpecLongGame == Init /\ [][LongGameNext]_vars

\* C24: in every state whose phase is Player1Turn or Player2Turn some
\* coordinate (x, y) lets fire_shot by the player to move succeed: the
\* defender's shot mask is not completely set.
C24_TurnPhaseHasFreeCell ==
    phase \in {"Player1Turn", "Player2Turn"}
        => /\ \E x, y \in 0 .. BoardSize - 1 : fire_shot_check(ToMove, x, y) = Ok
           /\ \E x, y \in 0 .. BoardSize - 1 :
                 ~already_shot(defender_of(ToMove), x, y)

====
